---- MODULE Spec2Model ----
(***************************************************************************)
(* Model of the audio chunking and transcription engine of                 *)
(* src/src/transcriber/transcriber.py (class AudioTranscriber) and of the  *)
(* batch loop of src/src/transcriber/cli.py with downloader.py.            *)
(*                                                                         *)
(* Five specifications share the module:                                   *)
(*   SplitSpec    the pure function _split_audio on bounded inputs         *)
(*   SplitLoopSpec  the loop of _split_audio run pass by pass              *)
(*   CombineSpec  the pure function _combine_transcripts on bounded inputs *)
(*   Spec         one AudioTranscriber object serving transcribe() calls   *)
(*   MainSpec     one run of the command line entry point, cli.py main     *)
(*                                                                         *)
(* A text is a sequence of one-character strings; " " is whitespace.       *)
(* An audio clip is represented by its window [start_ms, end_ms) of the    *)
(* source timeline; len(audio) is the total duration in milliseconds.      *)
(***************************************************************************)
EXTENDS Integers, Sequences, FiniteSets, TLC

VARIABLES
    pc,             \* which step of the specification has run
    split_in,       \* _split_audio: [audio (= len(audio), ms), chunk_duration_ms, overlap_ms]
    chunks,         \* _split_audio: the returned list of windows
    transcripts,    \* _combine_transcripts: the list it is given
    combined,       \* _combine_transcripts: the returned string
    config,             \* Config: the fields AudioTranscriber and main read
    OPENAI_AVAILABLE,   \* module flag: the openai library could be imported
    model,              \* self.model: "None" or "loaded"
    openai_client,      \* self.openai_client is not None
    use_openai,         \* self.use_openai
    audio_path,         \* the file of the last transcribe call: [exists, st_size]
    route,              \* branch the last transcribe call took: "none", "single", "chunked"
    load,               \* whisper.load_model in the last call: "not_called", "ok", "failed"
    client_init,        \* _init_openai_client in the last call: "not_called", "ok", "failed"
    exports,            \* chunk files exported by the last call, in order: [ok, st_size]
    calls,              \* backend requests of the last call, in order
    result,             \* value returned by the last call: [none, text]
    source,             \* the file of the last call as it is on disk after the call
    temp_files,         \* chunk clips left in temporary storage by the calls so far
    failed_before,      \* an earlier call on this object returned None
    load_calls,         \* whisper.load_model calls made by this object, up to MaxLoads
    loop_start,         \* _split_audio, run step by step: the local `start` of the loop
    episodes,           \* main: number of episodes the input source returned
    episode,            \* main: number of iterations of the episode loop begun
    downloads,          \* main: per episode, the audio file on disk
    log,                \* main: per iteration begun, what the loop body did
    exit_code           \* main: exit status of the process once pc = "exited"

splitVars   == <<split_in, chunks>>
combineVars == <<transcripts, combined>>
selfVars    == <<model, openai_client, use_openai>>
envVars     == <<config, OPENAI_AVAILABLE>>
callVars    == <<audio_path, route, load, client_init, exports, calls, result>>
diskVars    == <<source, temp_files>>
mainVars    == <<episodes, episode, downloads, log, exit_code>>
vars        == <<pc, splitVars, combineVars, selfVars, envVars, callVars,
                 diskVars, failed_before, load_calls, loop_start, mainVars>>

Min(a, b) == IF a <= b THEN a ELSE b
Max(a, b) == IF a >= b THEN a ELSE b

(***************************************************************************)
(* Bounds of the specifications.                                           *)
(***************************************************************************)
MaxTotal == 8        \* len(audio) ranges over 0..MaxTotal
MaxSeg == 4          \* chunk_duration_ms over 1..MaxSeg, overlap_ms over 0..MaxSeg
MaxList == 3         \* transcripts has at most MaxList entries
MaxChunks == 3       \* Spec: the files offered are cut into at most MaxChunks chunks
MaxLoads == 2        \* whisper.load_model calls of one object are counted up to MaxLoads
MaxBatch == 2        \* MainSpec: the input source returns at most MaxBatch episodes

(***************************************************************************)
(* str.strip(): drop leading and trailing whitespace.                      *)
(***************************************************************************)
RECURSIVE LStrip(_)
LStrip(s) ==
    IF s = <<>> THEN s
    ELSE IF Head(s) = " " THEN LStrip(Tail(s)) ELSE s

RECURSIVE RStrip(_)
RStrip(s) ==
    IF s = <<>> THEN s
    ELSE IF s[Len(s)] = " " THEN RStrip(SubSeq(s, 1, Len(s) - 1)) ELSE s

Strip(s) == RStrip(LStrip(s))

(***************************************************************************)
(* AudioTranscriber._split_audio (transcriber.py 188-204).                 *)
(* `audio` stands for len(audio); a chunk audio[start:end] is the window   *)
(* [start_ms, end_ms).  SplitLoop is the while loop entered at `start`     *)
(* with the list built so far.  With step <= 0 and                         *)
(* len(audio) > chunk_duration_ms the break is never taken and start       *)
(* never reaches len(audio): the call does not return.  The result is the  *)
(* record [returns, chunks]; returns = FALSE stands for the endless loop.  *)
(***************************************************************************)
Returned(list) == [returns |-> TRUE, chunks |-> list]
Endless == [returns |-> FALSE, chunks |-> <<>>]

RECURSIVE SplitLoop(_, _, _, _, _)
SplitLoop(audio, chunk_duration_ms, step, start, acc) ==
    IF start < audio
    THEN LET end == Min(start + chunk_duration_ms, audio)
             acc2 == Append(acc, [start_ms |-> start, end_ms |-> end])
         IN  IF end >= audio THEN acc2
             ELSE SplitLoop(audio, chunk_duration_ms, step, start + step, acc2)
    ELSE acc

RECURSIVE SplitLoopUnclipped(_, _, _, _, _)
SplitLoopUnclipped(audio, chunk_duration_ms, step, start, acc) ==
    IF start < audio
    THEN LET end == start + chunk_duration_ms
             acc2 == Append(acc, [start_ms |-> start, end_ms |-> end])
         IN  IF end >= audio THEN acc2
             ELSE SplitLoopUnclipped(audio, chunk_duration_ms, step, start + step, acc2)
    ELSE acc

RECURSIVE SplitLoopLateBreak(_, _, _, _, _)
SplitLoopLateBreak(audio, chunk_duration_ms, step, start, acc) ==
    IF start < audio
    THEN LET end == Min(start + chunk_duration_ms, audio)
             acc2 == Append(acc, [start_ms |-> start, end_ms |-> end])
         IN  IF end > audio THEN acc2
             ELSE SplitLoopLateBreak(audio, chunk_duration_ms, step, start + step, acc2)
    ELSE acc

\* faulty variant of _split_audio: step = chunk_duration_ms + overlap_ms (sign slip)
split_audio_step_plus(audio, chunk_duration_ms, overlap_ms) ==
    Returned(SplitLoop(audio, chunk_duration_ms, chunk_duration_ms + overlap_ms, 0, <<>>))

\* faulty variant of _split_audio: step = chunk_duration_ms (overlap forgotten)
split_audio_no_overlap(audio, chunk_duration_ms, overlap_ms) ==
    Returned(SplitLoop(audio, chunk_duration_ms, chunk_duration_ms, 0, <<>>))

\* faulty variant of _split_audio: end = start + chunk_duration_ms without min(.., len(audio))
split_audio_unclipped(audio, chunk_duration_ms, overlap_ms) ==
    IF chunk_duration_ms - overlap_ms <= 0 /\ audio > chunk_duration_ms THEN Endless
    ELSE Returned(SplitLoopUnclipped(audio, chunk_duration_ms,
                                     chunk_duration_ms - overlap_ms, 0, <<>>))

\* faulty variant of _split_audio: `if end > len(audio): break` (off by one)
split_audio_late_break(audio, chunk_duration_ms, overlap_ms) ==
    IF chunk_duration_ms - overlap_ms <= 0 /\ audio > 0 THEN Endless
    ELSE Returned(SplitLoopLateBreak(audio, chunk_duration_ms,
                                     chunk_duration_ms - overlap_ms, 0, <<>>))

\* faulty variant of _split_audio: an audio shorter than one chunk is not worth a
\* window (`if len(audio) < chunk_duration_ms: return []`)
split_audio_drop_short(audio, chunk_duration_ms, overlap_ms) ==
    IF audio < chunk_duration_ms THEN Returned(<<>>)
    ELSE IF chunk_duration_ms - overlap_ms <= 0 /\ audio > chunk_duration_ms THEN Endless
    ELSE Returned(SplitLoop(audio, chunk_duration_ms,
                            chunk_duration_ms - overlap_ms, 0, <<>>))

_split_audio(audio, chunk_duration_ms, overlap_ms) ==
    IF chunk_duration_ms - overlap_ms <= 0 /\ audio > chunk_duration_ms THEN Endless
    ELSE Returned(SplitLoop(audio, chunk_duration_ms,
                            chunk_duration_ms - overlap_ms, 0, <<>>))

(***************************************************************************)
(* AudioTranscriber._combine_transcripts (transcriber.py 206-227).         *)
(***************************************************************************)
RECURSIVE CombineLoop(_, _, _)
CombineLoop(ts, i, acc) ==
    IF i > Len(ts) THEN acc
    ELSE LET current == ts[i]
         IN  IF acc # <<>> /\ current # <<>>
             THEN CombineLoop(ts, i + 1, acc \o <<" ">> \o current)
             ELSE IF current # <<>>
                  THEN CombineLoop(ts, i + 1, current)
                  ELSE CombineLoop(ts, i + 1, acc)

RECURSIVE CombineLoopAlwaysSpace(_, _, _)
CombineLoopAlwaysSpace(ts, i, acc) ==
    IF i > Len(ts) THEN acc
    ELSE CombineLoopAlwaysSpace(ts, i + 1, acc \o <<" ">> \o ts[i])

\* faulty variant of _combine_transcripts: `combined += " " + current` for every chunk,
\* without the emptiness tests
combine_always_space(ts) ==
    IF ts = <<>> THEN <<>>
    ELSE IF Len(ts) = 1 THEN ts[1]
    ELSE Strip(CombineLoopAlwaysSpace(ts, 2, ts[1]))

\* faulty variant of _combine_transcripts: the `len(transcripts) == 1` shortcut is missing
combine_no_shortcut(ts) ==
    IF ts = <<>> THEN <<>>
    ELSE Strip(CombineLoop(ts, 2, ts[1]))

_combine_transcripts(ts) ==
    IF ts = <<>> THEN <<>>
    ELSE IF Len(ts) = 1 THEN ts[1]
    ELSE Strip(CombineLoop(ts, 2, ts[1]))

(***************************************************************************)
(* Input domains of the pure-function specifications.                      *)
(***************************************************************************)
ExampleSplit == [audio |-> 120000, chunk_duration_ms |-> 50000, overlap_ms |-> 10000]

SplitInputs ==
    [audio : 0..MaxTotal, chunk_duration_ms : 1..MaxSeg, overlap_ms : 0..MaxSeg]
        \cup { ExampleSplit }

\* sample texts: empty, trimmed (one with an inner space), and untrimmed
TrimmedTexts == { <<>>, <<"a">>, <<"b">>, <<"a", " ", "b">> }
Texts == TrimmedTexts \cup { <<" ">>, <<" ", "a">>, <<"b", " ">> }

SeqsUpTo(S, n) == UNION { [1..k -> S] : k \in 0..n }

\* A transcriber as constructed from the default Config, before any call.
NoFile == [exists |-> FALSE, st_size |-> 0]
None == [none |-> TRUE, text |-> <<>>]
Some(text) == [none |-> FALSE, text |-> text]
default_max_episodes == 5          \* Config.max_episodes, --max-episodes default

\* rss_url, local_dir, x_spaces_url: whether the field is a non-empty string.
DefaultConfig ==
    [use_openai_api |-> FALSE, openai_fallback |-> TRUE, openai_api_key |-> FALSE,
     chunk_size_mb |-> 25, overlap_seconds |-> 15,
     rss_url |-> FALSE, local_dir |-> FALSE, x_spaces_url |-> FALSE,
     delete_audio |-> FALSE, delete_original |-> FALSE,
     max_episodes |-> default_max_episodes]

NoCallYet ==
    /\ audio_path = NoFile
    /\ route = "none"
    /\ load = "not_called"
    /\ client_init = "not_called"
    /\ exports = <<>>
    /\ calls = <<>>
    /\ result = None
    /\ source = NoFile
    /\ temp_files = {}
    /\ failed_before = FALSE
    /\ load_calls = 0
    /\ loop_start = 0

\* main has not run.
MainIdle ==
    /\ episodes = 0
    /\ episode = 0
    /\ downloads = <<>>
    /\ log = <<>>
    /\ exit_code = 0

TranscriberIdle ==
    /\ config = DefaultConfig
    /\ OPENAI_AVAILABLE = FALSE
    /\ model = "None"
    /\ openai_client = FALSE
    /\ use_openai = FALSE
    /\ NoCallYet

(***************************************************************************)
(* SplitSpec: _split_audio applied to every input of SplitInputs.          *)
(***************************************************************************)
SplitInit ==
    /\ pc = "split"
    /\ split_in \in SplitInputs
    /\ chunks = <<>>
    /\ transcripts = <<>>
    /\ combined = <<>>
    /\ TranscriberIdle
    /\ MainIdle

Split ==
    /\ pc = "split"
    /\ LET r == _split_audio(split_in.audio, split_in.chunk_duration_ms,
                             split_in.overlap_ms)
       IN  /\ chunks' = r.chunks
           /\ pc' = IF r.returns THEN "split_done" ELSE "split_endless"
    /\ UNCHANGED <<split_in, combineVars, selfVars, envVars, callVars,
                   diskVars, failed_before, load_calls, loop_start, mainVars>>

SplitNext == Split

SplitSpec == SplitInit /\ [][SplitNext]_vars

(***************************************************************************)
(* SplitLoopSpec: the while loop of _split_audio (194-202) run one pass at *)
(* a time on every input of SplitInputs.  pc = "splitting" while the loop  *)
(* runs, "split_returned" once `return chunks` (204) is reached.  A loop   *)
(* that has appended MaxTotal + 1 windows is not followed further: no run  *)
(* on these inputs that returns appends that many.                         *)
(***************************************************************************)
SplitLoopInit ==
    /\ pc = "splitting"
    /\ split_in \in SplitInputs
    /\ chunks = <<>>
    /\ transcripts = <<>>
    /\ combined = <<>>
    /\ TranscriberIdle
    /\ MainIdle

\* faulty variant of next_start: `start += step` is missing
next_start_stuck(start, step) == start

\* `start += step` (202)
next_start(start, step) == start + step

\* One pass of the loop body (195-202): the window is appended, then either
\* the break is taken or start advances.
SplitPass ==
    /\ pc = "splitting"
    /\ Len(chunks) <= MaxTotal
    /\ loop_start < split_in.audio
    /\ LET end == Min(loop_start + split_in.chunk_duration_ms, split_in.audio)
           step == split_in.chunk_duration_ms - split_in.overlap_ms
       IN  /\ chunks' = Append(chunks, [start_ms |-> loop_start, end_ms |-> end])
           /\ IF end >= split_in.audio
              THEN pc' = "split_returned" /\ UNCHANGED loop_start
              ELSE pc' = "splitting" /\ loop_start' = next_start(loop_start, step)
    /\ UNCHANGED <<split_in, combineVars, selfVars, envVars, callVars,
                   diskVars, failed_before, load_calls, mainVars>>

\* The loop test (194) fails: the function returns.
SplitLoopExit ==
    /\ pc = "splitting"
    /\ ~(loop_start < split_in.audio)
    /\ pc' = "split_returned"
    /\ UNCHANGED <<splitVars, combineVars, selfVars, envVars, callVars,
                   diskVars, failed_before, load_calls, loop_start, mainVars>>

SplitLoopNext == SplitPass \/ SplitLoopExit

\* The interpreter keeps running the loop: a pass that can be made is made.
SplitLoopSpec == SplitLoopInit /\ [][SplitLoopNext]_vars /\ WF_vars(SplitLoopNext)

(***************************************************************************)
(* CombineSpec: _combine_transcripts applied to every list of Texts of     *)
(* length <= MaxList.                                                      *)
(***************************************************************************)
CombineInit ==
    /\ pc = "combine"
    /\ transcripts \in SeqsUpTo(Texts, MaxList)
    /\ combined = <<>>
    /\ split_in = [audio |-> 0, chunk_duration_ms |-> 1, overlap_ms |-> 0]
    /\ chunks = <<>>
    /\ TranscriberIdle
    /\ MainIdle

Combine ==
    /\ pc = "combine"
    /\ combined' = _combine_transcripts(transcripts)
    /\ pc' = "combine_done"
    /\ UNCHANGED <<transcripts, splitVars, selfVars, envVars, callVars,
                   diskVars, failed_before, load_calls, loop_start, mainVars>>

CombineNext == Combine

CombineSpec == CombineInit /\ [][CombineNext]_vars

(***************************************************************************)
(* The AudioTranscriber object (transcriber.py 34-291).                    *)
(*                                                                         *)
(* File sizes are counted in units of SizeUnit bytes so that the products  *)
(* of the duration estimate stay inside TLC's integers.  Every use of a    *)
(* size in the code is a comparison with, or a quotient by, another size,  *)
(* so the unit cancels.                                                    *)
(***************************************************************************)
SizeUnit == 64 * 1024
MB == (1024 * 1024) \div SizeUnit

openai_limit_mb == 25              \* transcribe: openai_limit_mb = 25
openai_chunk_size_mb == 20         \* _transcribe_large_file_with_openai
chunk_skip_limit_mb == 25          \* `if chunk_size_mb > 25` of the chunk loop
min_chunk_duration_ms == 30000     \* max(chunk_duration_ms, 30000)

LOCAL_WHISPER == "local_whisper"
OPENAI_API == "openai_api"

\* One request to a backend (a call of _transcribe_file or of
\* _transcribe_with_openai): which backend, which segment (0 = the whole file,
\* i = chunk i), the size of the payload, whether the request went out to the
\* backend, whether it succeeded, and the text the method returned for it.
Call(backend, segment, st_size, sent, ok, text) ==
    [backend |-> backend, segment |-> segment, st_size |-> st_size,
     sent |-> sent, ok |-> ok, text |-> text]

\* What a backend does with one request: it fails (raises), or answers with a text.
Failure == [ok |-> FALSE, text |-> <<>>]
Answer(text) == [ok |-> TRUE, text |-> text]

\* _init_openai_client (55-67): the client is created when the library is
\* present and the constructor does not raise; otherwise the attribute is kept.
_init_openai_client(client, ctor_ok) ==
    IF ~OPENAI_AVAILABLE THEN [ok |-> FALSE, openai_client |-> client]
    ELSE IF ctor_ok THEN [ok |-> TRUE, openai_client |-> TRUE]
    ELSE [ok |-> FALSE, openai_client |-> client]

\* faulty variant of _load_model: the fallback ignores config.openai_fallback
load_model_fallback_always(load_ok, ctor_ok) ==
    IF use_openai
    THEN [ok |-> TRUE, model |-> model, openai_client |-> openai_client,
          use_openai |-> use_openai, load |-> "not_called", client_init |-> "not_called"]
    ELSE IF model = "None"
    THEN IF load_ok
         THEN [ok |-> TRUE, model |-> "loaded", openai_client |-> openai_client,
               use_openai |-> use_openai, load |-> "ok", client_init |-> "not_called"]
         ELSE IF config.openai_api_key
              THEN LET ci == _init_openai_client(openai_client, ctor_ok)
                   IN  [ok |-> ci.ok, model |-> model,
                        openai_client |-> ci.openai_client,
                        use_openai |-> ci.ok, load |-> "failed",
                        client_init |-> IF ci.ok THEN "ok" ELSE "failed"]
              ELSE [ok |-> FALSE, model |-> model, openai_client |-> openai_client,
                    use_openai |-> use_openai, load |-> "failed",
                    client_init |-> "not_called"]
    ELSE [ok |-> TRUE, model |-> model, openai_client |-> openai_client,
          use_openai |-> use_openai, load |-> "not_called", client_init |-> "not_called"]

\* faulty variant of _load_model: only the configured API skips the load; after a fallback
\* the local model is tried again and taken back into use when it loads
load_model_retry_local(load_ok, ctor_ok) ==
    IF use_openai /\ config.use_openai_api
    THEN [ok |-> TRUE, model |-> model, openai_client |-> openai_client,
          use_openai |-> use_openai, load |-> "not_called", client_init |-> "not_called"]
    ELSE IF model = "None"
    THEN IF load_ok
         THEN [ok |-> TRUE, model |-> "loaded", openai_client |-> openai_client,
               use_openai |-> FALSE, load |-> "ok", client_init |-> "not_called"]
         ELSE IF config.openai_fallback /\ config.openai_api_key
              THEN LET ci == _init_openai_client(openai_client, ctor_ok)
                   IN  [ok |-> ci.ok, model |-> model,
                        openai_client |-> ci.openai_client,
                        use_openai |-> ci.ok, load |-> "failed",
                        client_init |-> IF ci.ok THEN "ok" ELSE "failed"]
              ELSE [ok |-> FALSE, model |-> model, openai_client |-> openai_client,
                    use_openai |-> use_openai, load |-> "failed",
                    client_init |-> "not_called"]
    ELSE [ok |-> TRUE, model |-> model, openai_client |-> openai_client,
          use_openai |-> FALSE, load |-> "not_called", client_init |-> "not_called"]

\* _load_model (69-106) on the object's current fields.  load_ok: whether
\* whisper.load_model succeeds; ctor_ok: whether the OpenAI constructor does.
_load_model(load_ok, ctor_ok) ==
    IF use_openai
    THEN [ok |-> TRUE, model |-> model, openai_client |-> openai_client,
          use_openai |-> use_openai, load |-> "not_called", client_init |-> "not_called"]
    ELSE IF model = "None"
    THEN IF load_ok
         THEN [ok |-> TRUE, model |-> "loaded", openai_client |-> openai_client,
               use_openai |-> use_openai, load |-> "ok", client_init |-> "not_called"]
         ELSE IF config.openai_fallback /\ config.openai_api_key
              THEN LET ci == _init_openai_client(openai_client, ctor_ok)
                   IN  [ok |-> ci.ok, model |-> model,
                        openai_client |-> ci.openai_client,
                        use_openai |-> ci.ok, load |-> "failed",
                        client_init |-> IF ci.ok THEN "ok" ELSE "failed"]
              ELSE [ok |-> FALSE, model |-> model, openai_client |-> openai_client,
                    use_openai |-> use_openai, load |-> "failed",
                    client_init |-> "not_called"]
    ELSE [ok |-> TRUE, model |-> model, openai_client |-> openai_client,
          use_openai |-> use_openai, load |-> "not_called", client_init |-> "not_called"]

\* _transcribe_file (141-144): one call of the local model, result stripped.
_transcribe_file(segment, st_size, response) ==
    IF response.ok
    THEN [raised |-> FALSE, text |-> Strip(response.text),
          calls |-> <<Call(LOCAL_WHISPER, segment, st_size, TRUE, TRUE,
                         Strip(response.text))>>]
    ELSE [raised |-> TRUE, text |-> <<>>,
          calls |-> <<Call(LOCAL_WHISPER, segment, st_size, TRUE, FALSE, <<>>)>>]

\* _transcribe_with_openai (229-241): one API call, result stripped; any
\* exception is logged and raised again.  Without a client the attribute access
\* self.openai_client.audio raises: the request fails whatever the service
\* would have answered.
_transcribe_with_openai(client, segment, st_size, response) ==
    IF client /\ response.ok
    THEN [raised |-> FALSE, text |-> Strip(response.text),
          calls |-> <<Call(OPENAI_API, segment, st_size, TRUE, TRUE,
                         Strip(response.text))>>]
    ELSE [raised |-> TRUE, text |-> <<>>,
          calls |-> <<Call(OPENAI_API, segment, st_size, client, FALSE, <<>>)>>]

\* faulty variant of estimate_chunk_duration: the estimate is used as it is, without
\* the lower limit
estimate_chunk_duration_unclamped(audio, chunk_size_mb, total_size) ==
    (audio * (chunk_size_mb * MB)) \div total_size

\* The chunk duration of both chunking methods (152-160, 253-258):
\* max(int(len(audio) * chunk_size_bytes / total_size_bytes), 30000).
estimate_chunk_duration(audio, chunk_size_mb, total_size) ==
    Max((audio * (chunk_size_mb * MB)) \div total_size, min_chunk_duration_ms)

\* The for loop of _transcribe_with_chunking (170-180) from chunk i on; acc holds
\* the transcripts, the exported chunk files and the backend requests so far.
\* segs[i]: whether chunk i can be exported, the exported size, the backend's answer.
NoChunksYet == [raised |-> FALSE, transcripts |-> <<>>, exports |-> <<>>, calls |-> <<>>]
Exported(seg) == [ok |-> seg.export_ok, st_size |-> seg.st_size]

\* faulty variant of LocalChunkLoop: a failed request is repeated once before the loop
\* gives up
RECURSIVE LocalChunkLoopRetry(_, _, _, _)
LocalChunkLoopRetry(n, segs, i, acc) ==
    IF i > n THEN acc
    ELSE LET acc2 == [acc EXCEPT !.exports = Append(@, Exported(segs[i]))]
         IN  IF ~segs[i].export_ok THEN [acc2 EXCEPT !.raised = TRUE]
             ELSE LET r == _transcribe_file(i, segs[i].st_size, segs[i].response)
                  IN  IF r.raised
                      THEN [acc2 EXCEPT !.raised = TRUE, !.calls = @ \o r.calls \o r.calls]
                      ELSE LocalChunkLoopRetry(n, segs, i + 1,
                               [acc2 EXCEPT !.transcripts = Append(@, r.text),
                                            !.calls = @ \o r.calls])

RECURSIVE LocalChunkLoop(_, _, _, _)
LocalChunkLoop(n, segs, i, acc) ==
    IF i > n THEN acc
    ELSE LET acc2 == [acc EXCEPT !.exports = Append(@, Exported(segs[i]))]
         IN  IF ~segs[i].export_ok THEN [acc2 EXCEPT !.raised = TRUE]
             ELSE LET r == _transcribe_file(i, segs[i].st_size, segs[i].response)
                  IN  IF r.raised
                      THEN [acc2 EXCEPT !.raised = TRUE, !.calls = @ \o r.calls]
                      ELSE LocalChunkLoop(n, segs, i + 1,
                               [acc2 EXCEPT !.transcripts = Append(@, r.text),
                                            !.calls = @ \o r.calls])

\* faulty variant of OpenAIChunkLoop: a chunk that is still too large raises instead of
\* being skipped
RECURSIVE OpenAIChunkLoopAbort(_, _, _, _, _)
OpenAIChunkLoopAbort(client, n, segs, i, acc) ==
    IF i > n THEN acc
    ELSE LET acc2 == [acc EXCEPT !.exports = Append(@, Exported(segs[i]))]
         IN  IF ~segs[i].export_ok THEN [acc2 EXCEPT !.raised = TRUE]
             ELSE IF segs[i].st_size > chunk_skip_limit_mb * MB
             THEN [acc2 EXCEPT !.raised = TRUE]
             ELSE LET r == _transcribe_with_openai(client, i, segs[i].st_size,
                                                   segs[i].response)
                  IN  IF r.raised
                      THEN [acc2 EXCEPT !.raised = TRUE, !.calls = @ \o r.calls]
                      ELSE OpenAIChunkLoopAbort(client, n, segs, i + 1,
                               [acc2 EXCEPT !.transcripts = Append(@, r.text),
                                            !.calls = @ \o r.calls])

\* faulty variant of OpenAIChunkLoop: the size of the exported chunk is not looked at
RECURSIVE OpenAIChunkLoopNoSizeCheck(_, _, _, _, _)
OpenAIChunkLoopNoSizeCheck(client, n, segs, i, acc) ==
    IF i > n THEN acc
    ELSE LET acc2 == [acc EXCEPT !.exports = Append(@, Exported(segs[i]))]
         IN  IF ~segs[i].export_ok THEN [acc2 EXCEPT !.raised = TRUE]
             ELSE LET r == _transcribe_with_openai(client, i, segs[i].st_size,
                                                   segs[i].response)
                  IN  IF r.raised
                      THEN [acc2 EXCEPT !.raised = TRUE, !.calls = @ \o r.calls]
                      ELSE OpenAIChunkLoopNoSizeCheck(client, n, segs, i + 1,
                               [acc2 EXCEPT !.transcripts = Append(@, r.text),
                                            !.calls = @ \o r.calls])

\* faulty variant of OpenAIChunkLoop: a chunk that is still too large is skipped without
\* an entry in transcripts
RECURSIVE OpenAIChunkLoopSkipNoEntry(_, _, _, _, _)
OpenAIChunkLoopSkipNoEntry(client, n, segs, i, acc) ==
    IF i > n THEN acc
    ELSE LET acc2 == [acc EXCEPT !.exports = Append(@, Exported(segs[i]))]
         IN  IF ~segs[i].export_ok THEN [acc2 EXCEPT !.raised = TRUE]
             ELSE IF segs[i].st_size > chunk_skip_limit_mb * MB
             THEN OpenAIChunkLoopSkipNoEntry(client, n, segs, i + 1, acc2)
             ELSE LET r == _transcribe_with_openai(client, i, segs[i].st_size,
                                                   segs[i].response)
                  IN  IF r.raised
                      THEN [acc2 EXCEPT !.raised = TRUE, !.calls = @ \o r.calls]
                      ELSE OpenAIChunkLoopSkipNoEntry(client, n, segs, i + 1,
                               [acc2 EXCEPT !.transcripts = Append(@, r.text),
                                            !.calls = @ \o r.calls])

\* The for loop of _transcribe_large_file_with_openai (268-285) from chunk i on.
RECURSIVE OpenAIChunkLoop(_, _, _, _, _)
OpenAIChunkLoop(client, n, segs, i, acc) ==
    IF i > n THEN acc
    ELSE LET acc2 == [acc EXCEPT !.exports = Append(@, Exported(segs[i]))]
         IN  IF ~segs[i].export_ok THEN [acc2 EXCEPT !.raised = TRUE]
             ELSE IF segs[i].st_size > chunk_skip_limit_mb * MB
             THEN OpenAIChunkLoop(client, n, segs, i + 1,
                      [acc2 EXCEPT !.transcripts = Append(@, <<>>)])
             ELSE LET r == _transcribe_with_openai(client, i, segs[i].st_size,
                                                   segs[i].response)
                  IN  IF r.raised
                      THEN [acc2 EXCEPT !.raised = TRUE, !.calls = @ \o r.calls]
                      ELSE OpenAIChunkLoop(client, n, segs, i + 1,
                               [acc2 EXCEPT !.transcripts = Append(@, r.text),
                                            !.calls = @ \o r.calls])

\* `with tempfile.TemporaryDirectory() as temp_dir` (167, 265).  The chunk clips
\* are files of that directory: clip i exists once chunk i has been exported.
\* Leaving the with block, by falling off its end or by an exception of an
\* export or of a backend request, removes the directory with all it holds.
ClipsOf(chunk_exports) == { i \in DOMAIN chunk_exports : chunk_exports[i].ok }

\* faulty variant of TemporaryDirectory_exit: the clips are removed by a statement at the
\* end of the block, which an exception skips
temporary_directory_exit_on_return_only(raised, clips) ==
    IF raised THEN clips ELSE {}

TemporaryDirectory_exit(raised, clips) == {}

\* What a chunking method leaves behind: how it ended ("returned", "raised",
\* "endless"), its locals, the backend calls it made, and the clips still in
\* temporary storage.
NoSplit == [audio |-> 0, chunk_duration_ms |-> 1, overlap_ms |-> 0]
ChunkedRaisedEarly ==
    [ended |-> "raised", text |-> <<>>, split_in |-> NoSplit, chunks |-> <<>>,
     transcripts |-> <<>>, combined |-> <<>>, exports |-> <<>>, calls |-> <<>>,
     temp_files |-> {}]

\* The split (164, 262) comes before the with block: a split that does not return
\* never creates the directory.
ChunkedAfterSplit(sin, sp, lp) ==
    IF ~sp.returns
    THEN [ended |-> "endless", text |-> <<>>, split_in |-> sin, chunks |-> <<>>,
          transcripts |-> <<>>, combined |-> <<>>, exports |-> <<>>, calls |-> <<>>,
          temp_files |-> {}]
    ELSE IF lp.raised
    THEN [ended |-> "raised", text |-> <<>>, split_in |-> sin, chunks |-> sp.chunks,
          transcripts |-> lp.transcripts, combined |-> <<>>,
          exports |-> lp.exports, calls |-> lp.calls,
          temp_files |-> TemporaryDirectory_exit(TRUE, ClipsOf(lp.exports))]
    ELSE [ended |-> "returned", text |-> _combine_transcripts(lp.transcripts),
          split_in |-> sin, chunks |-> sp.chunks, transcripts |-> lp.transcripts,
          combined |-> _combine_transcripts(lp.transcripts),
          exports |-> lp.exports, calls |-> lp.calls,
          temp_files |-> TemporaryDirectory_exit(FALSE, ClipsOf(lp.exports))]

\* _transcribe_with_chunking (146-186).  decode_ok: AudioSegment.from_file
\* succeeds; audio: len(audio).
_transcribe_with_chunking(file, decode_ok, audio, segs) ==
    IF ~decode_ok \/ file.st_size = 0 THEN ChunkedRaisedEarly
    ELSE LET sin == [audio |-> audio,
                     chunk_duration_ms |->
                         estimate_chunk_duration(audio, config.chunk_size_mb, file.st_size),
                     overlap_ms |-> config.overlap_seconds * 1000]
             sp == _split_audio(sin.audio, sin.chunk_duration_ms, sin.overlap_ms)
         IN  ChunkedAfterSplit(sin, sp,
                 IF sp.returns THEN LocalChunkLoop(Len(sp.chunks), segs, 1, NoChunksYet)
                 ELSE NoChunksYet)

\* _transcribe_large_file_with_openai (243-291).
_transcribe_large_file_with_openai(client, file, decode_ok, audio, segs) ==
    IF ~decode_ok \/ file.st_size = 0 THEN ChunkedRaisedEarly
    ELSE LET sin == [audio |-> audio,
                     chunk_duration_ms |->
                         estimate_chunk_duration(audio, openai_chunk_size_mb, file.st_size),
                     overlap_ms |-> config.overlap_seconds * 1000]
             sp == _split_audio(sin.audio, sin.chunk_duration_ms, sin.overlap_ms)
         IN  ChunkedAfterSplit(sin, sp,
                 IF sp.returns
                 THEN OpenAIChunkLoop(client, Len(sp.chunks), segs, 1, NoChunksYet)
                 ELSE NoChunksYet)

\* faulty variant of size_limit_mb: the configured chunk size is used for both backends
size_limit_config_only(uses_openai) == config.chunk_size_mb

\* transcribe, lines 114-135: the size limit of the backend in use, and the test
\* that sends the file down the single-pass branch.
size_limit_mb(uses_openai) ==
    IF uses_openai THEN openai_limit_mb ELSE config.chunk_size_mb

is_single_pass(uses_openai, st_size) == st_size <= size_limit_mb(uses_openai) * MB

\* get_engine_name (343-348)
get_engine_name == IF use_openai THEN OPENAI_API ELSE LOCAL_WHISPER

(***************************************************************************)
(* Environments of the transcriber specification.                          *)
(***************************************************************************)
Configs ==
    [use_openai_api : BOOLEAN, openai_fallback : BOOLEAN, openai_api_key : BOOLEAN,
     chunk_size_mb : {25, 50}, overlap_seconds : {0, 15, 30},
     rss_url : {DefaultConfig.rss_url}, local_dir : {DefaultConfig.local_dir},
     x_spaces_url : {DefaultConfig.x_spaces_url},
     delete_audio : {DefaultConfig.delete_audio},
     delete_original : {DefaultConfig.delete_original},
     max_episodes : {DefaultConfig.max_episodes}]

FileSizes == {0, 25 * MB, 25 * MB + 1, 30 * MB, 50 * MB, 60 * MB}
Files == {NoFile} \cup [exists : {TRUE}, st_size : FileSizes]
Durations == {0, 20000, 60000, 90000}
Responses == {Failure, Answer(<<>>), Answer(<<"a">>), Answer(<<" ", "b">>)}
SegOutcomes ==
    { [export_ok |-> FALSE, st_size |-> 0, response |-> Failure],
      [export_ok |-> TRUE, st_size |-> 25 * MB + 1, response |-> Answer(<<"a">>)],
      [export_ok |-> TRUE, st_size |-> 5 * MB, response |-> Failure],
      [export_ok |-> TRUE, st_size |-> 5 * MB, response |-> Answer(<<>>)],
      [export_ok |-> TRUE, st_size |-> 25 * MB, response |-> Answer(<<"a">>)],
      [export_ok |-> TRUE, st_size |-> 5 * MB, response |-> Answer(<<" ", "b">>)] }

\* The outcomes of the chunks of one call.  The chunk loop is left at the first
\* chunk whose export or request fails, so what would have happened to the later
\* chunks is not part of the run: they repeat that outcome.
Raises(seg) == ~seg.export_ok \/ ~seg.response.ok
SegOutcomeLists(n) ==
    { segs \in [1..n -> SegOutcomes] :
        \A i \in 2..n : Raises(segs[i - 1]) => segs[i] = segs[i - 1] }

\* Number of chunks the chunking method in use cuts (0 when it cuts none).
PlannedChunks(uses_openai, file, audio) ==
    IF file.st_size = 0 THEN 0
    ELSE LET budget == IF uses_openai THEN openai_chunk_size_mb ELSE config.chunk_size_mb
         IN  Len(_split_audio(audio,
                              estimate_chunk_duration(audio, budget, file.st_size),
                              config.overlap_seconds * 1000).chunks)

\* The audio lengths a file of this size is offered with.
OfferedDurations(uses_openai, file) ==
    { audio \in Durations : PlannedChunks(uses_openai, file, audio) <= MaxChunks }

(***************************************************************************)
(* Spec: __init__ (37-53) gives the initial states; Transcribe is one call *)
(* of transcribe (108-139) on the same object.                             *)
(***************************************************************************)
Init ==
    /\ pc = "ready"
    /\ config \in Configs
    /\ OPENAI_AVAILABLE \in BOOLEAN
    /\ model = "None"
    /\ \E ctor_ok \in BOOLEAN :
          openai_client = (config.openai_api_key
                           /\ OPENAI_AVAILABLE /\ ctor_ok)
    /\ use_openai = config.use_openai_api
    /\ NoCallYet
    /\ MainIdle
    /\ split_in = NoSplit
    /\ chunks = <<>>
    /\ transcripts = <<>>
    /\ combined = <<>>

\* faulty variant of source_accesses: the chunking methods remove the file they have cut
source_accesses_unlink_after_split(backend_ok, file, rt) ==
    IF ~backend_ok THEN <<>>
    ELSE IF ~file.exists THEN <<"stat">>
    ELSE IF rt = "single" THEN <<"stat", "read">>
    ELSE <<"stat", "read", "stat", "unlink">>

\* What transcribe does with the path it is given, in order: stat (115); on the
\* single-pass branch the backend reads the file (143, 232-237); on the chunked
\* branch the file is decoded (149, 246) and stat is called again (156, 253).
\* The chunks are exported to other paths, inside the temporary directory
\* (171-174, 269-272).  Without a backend the call returns before any access.
source_accesses(backend_ok, file, rt) ==
    IF ~backend_ok THEN <<>>
    ELSE IF ~file.exists THEN <<"stat">>
    ELSE IF rt = "single" THEN <<"stat", "read">>
    ELSE <<"stat", "read", "stat">>

\* The file after one access: stat and read leave it as it is.
Access(file, op) ==
    IF op = "unlink" THEN NoFile
    ELSE IF op = "truncate" THEN [file EXCEPT !.st_size = 0]
    ELSE file

RECURSIVE AfterAccesses(_, _)
AfterAccesses(file, ops) ==
    IF ops = <<>> THEN file ELSE AfterAccesses(Access(file, Head(ops)), Tail(ops))

\* faulty variant of transcribe_ends: the except clause logs and raises again
transcribe_ends_reraise(ended) ==
    IF ended = "endless" THEN "endless"
    ELSE IF ended = "raised" THEN "raised"
    ELSE "returned"

\* transcribe, the try block 110-139, seen from the caller: the call returns when
\* the branch taken returns and also when it raises, the except clause turning
\* any exception into `return None`; it does not come back from an endless split.
transcribe_ends(ended) == IF ended = "endless" THEN "endless" ELSE "returned"

\* The number of whisper.load_model calls (line 74) after a call of _load_model
\* that ended with the given load; it is counted up to MaxLoads.
loads_after(ld) ==
    IF ld = "not_called" THEN load_calls ELSE Min(load_calls + 1, MaxLoads)

\* The call ends (returns, or hangs in the split) with the object's fields as
\* _load_model left them and the trace ch of the branch taken.
Commit(lm, file, rt, ch) ==
    /\ pc' = transcribe_ends(ch.ended)
    /\ model' = lm.model
    /\ openai_client' = lm.openai_client
    /\ use_openai' = lm.use_openai
    /\ load' = lm.load
    /\ client_init' = lm.client_init
    /\ audio_path' = file
    /\ route' = rt
    /\ exports' = ch.exports
    /\ calls' = ch.calls
    /\ result' = IF ch.ended = "returned" THEN Some(ch.text) ELSE None
    /\ split_in' = ch.split_in
    /\ chunks' = ch.chunks
    /\ transcripts' = ch.transcripts
    /\ combined' = ch.combined
    /\ source' = AfterAccesses(file, source_accesses(lm.ok, file, rt))
    /\ temp_files' = temp_files \cup ch.temp_files
    /\ load_calls' = loads_after(lm.load)
    /\ UNCHANGED <<envVars, failed_before, loop_start, mainVars>>

\* A single backend call seen as the outcome of a (trivial) chunking method.
SinglePass(r) ==
    [ChunkedRaisedEarly EXCEPT !.ended = IF r.raised THEN "raised" ELSE "returned",
                               !.text = r.text, !.calls = r.calls]

transcribe(file, load_ok, ctor_ok) ==
    LET lm == _load_model(load_ok, ctor_ok)
    IN  IF ~lm.ok \/ ~file.exists
        THEN \* return None (112), or stat() raises and the handler returns None (139)
             Commit(lm, file, "none", ChunkedRaisedEarly)
        ELSE IF is_single_pass(lm.use_openai, file.st_size)
        THEN \E response \in Responses :
                Commit(lm, file, "single",
                       SinglePass(IF lm.use_openai
                                  THEN _transcribe_with_openai(lm.openai_client, 0,
                                                               file.st_size, response)
                                  ELSE _transcribe_file(0, file.st_size, response)))
        ELSE \E decode_ok \in BOOLEAN, audio \in OfferedDurations(lm.use_openai, file) :
                \E segs \in SegOutcomeLists(PlannedChunks(lm.use_openai, file, audio)) :
                    Commit(lm, file, "chunked",
                           IF lm.use_openai
                           THEN _transcribe_large_file_with_openai(
                                    lm.openai_client, file, decode_ok, audio, segs)
                           ELSE _transcribe_with_chunking(file, decode_ok, audio, segs))

\* The outcomes of whisper.load_model and of the OpenAI constructor that the
\* call can observe: load_model runs only for a local transcriber without a
\* model, the constructor only in the fallback after a failed load.
LoadOutcomes == IF use_openai \/ model # "None" THEN {TRUE} ELSE BOOLEAN
CtorOutcomes(load_ok) ==
    IF load_ok \/ ~OPENAI_AVAILABLE \/ ~config.openai_api_key THEN {TRUE} ELSE BOOLEAN

Transcribe ==
    /\ pc = "ready"
    /\ \E file \in Files, load_ok \in LoadOutcomes :
          \E ctor_ok \in CtorOutcomes(load_ok) :
              transcribe(file, load_ok, ctor_ok)

\* The caller (cli.py main, the episode loop 171-245) has consumed the returned
\* value and comes back with the next file; the locals of the finished call are gone.
NextEpisode ==
    /\ pc = "returned"
    /\ pc' = "ready"
    /\ audio_path' = NoFile
    /\ route' = "none"
    /\ load' = "not_called"
    /\ client_init' = "not_called"
    /\ exports' = <<>>
    /\ calls' = <<>>
    /\ result' = None
    /\ split_in' = NoSplit
    /\ chunks' = <<>>
    /\ transcripts' = <<>>
    /\ combined' = <<>>
    /\ source' = NoFile
    /\ failed_before' = (failed_before \/ result.none)
    /\ UNCHANGED <<selfVars, envVars, temp_files, load_calls, loop_start, mainVars>>

Next == Transcribe \/ NextEpisode

Spec == Init /\ [][Next]_vars

(***************************************************************************)
(* MainSpec: one run of main (cli.py 102-249).                             *)
(*                                                                         *)
(* The audio file of an episode is "absent", "partial" (some of its bytes  *)
(* are on disk) or "complete".  A call of transcriber.transcribe is        *)
(* represented by what main gets from it, the fields of the object as      *)
(* _load_model leaves them and the value returned; the requests of a call  *)
(* are the subject of Spec.                                                *)
(***************************************************************************)
FileStates == {"absent", "partial", "complete"}
FetchOutcomes == {"ok", "refused", "broken"}

\* What transcribe returns (108-139): None, or the text of the file.
Transcripts == {None, Some(<<>>), Some(<<"a">>)}

\* What transcribe can return for a file: None when no backend is available
\* (111-112) and when the file is not there (stat raises at 115).
TranscriptsOf(backend_ok, file) ==
    IF backend_ok /\ file # "absent" THEN Transcripts ELSE {None}

\* faulty variant of Truthy: `if transcript is not None:`
is_not_none(r) == ~r.none

\* `if transcript:` (cli.py 205): None and the empty string are false.
Truthy(r) == ~r.none /\ r.text # <<>>

\* get_config (config.py 117-140) takes each source from the command line or,
\* when it is not given there, from the environment (STT_RSS_URL, STT_LOCAL_DIR,
\* STT_X_SPACES_URL); main refuses two sources on the command line (115-119) but
\* not in the Config, so any of the three fields can be set together.
MainConfigs ==
    [use_openai_api : {FALSE}, openai_fallback : {TRUE}, openai_api_key : {FALSE},
     chunk_size_mb : {25}, overlap_seconds : {15},
     rss_url : BOOLEAN, local_dir : BOOLEAN, x_spaces_url : BOOLEAN,
     delete_audio : BOOLEAN, delete_original : BOOLEAN,
     max_episodes : {1, default_max_episodes}]

\* The function that gives the episodes (156-161): the first of local_dir,
\* rss_url, x_spaces_url that is set.
episode_source ==
    IF config.local_dir THEN "local_dir"
    ELSE IF config.rss_url THEN "rss_url"
    ELSE IF config.x_spaces_url THEN "x_spaces_url"
    ELSE "none"

\* How the loop gets the audio path of an episode (179-189): the path of the
\* episode itself when local_dir or x_spaces_url is set, a download otherwise.
audio_path_source ==
    IF config.local_dir THEN "local_dir"
    ELSE IF config.x_spaces_url THEN "x_spaces_url"
    ELSE "download"

\* The episode lists the input source can return (156-161): any number of
\* episodes from a directory or a feed, at most one from X Spaces (251-262).
EpisodeCounts ==
    IF episode_source = "x_spaces_url" THEN 0..1 ELSE 0..MaxBatch

\* The audio files at the start of the loop, at the path the loop will use: a
\* scanned directory and the X Spaces extraction give files that are there; a
\* file of the download directory may be left from an earlier run; the URL of
\* a feed episode taken as a path (x_spaces_url set next to rss_url) names no file.
InitialDownloads(n) ==
    IF episode_source = "rss_url"
    THEN IF audio_path_source = "download" THEN [1..n -> FileStates]
         ELSE [1..n -> {"absent"}]
    ELSE [1..n -> {"complete"}]

\* AudioDownloader.download (downloader.py 22-52).  A file that exists is
\* returned as it is (29-31).  Otherwise the request is made: an error before
\* the file is opened (36-37) leaves nothing, an error while the body is written
\* (40-43) leaves what was written; both are caught and None is returned.
download(file, fetch) ==
    IF file # "absent" THEN [path |-> TRUE, file |-> file]
    ELSE IF fetch = "refused" THEN [path |-> FALSE, file |-> "absent"]
    ELSE IF fetch = "broken" THEN [path |-> FALSE, file |-> "partial"]
    ELSE [path |-> TRUE, file |-> "complete"]

\* The file at audio_path when the loop goes on to transcribe (179-192).
audio_file(file, fetch) ==
    IF audio_path_source = "download" THEN download(file, fetch).file ELSE file

\* The unlink calls that follow a saved transcript (229-243).
unlink_calls ==
    (IF config.delete_audio /\ ~config.local_dir THEN 1 ELSE 0)
        + (IF config.delete_original /\ config.x_spaces_url THEN 1 ELSE 0)

\* The file after n calls of audio_path.unlink(); a failing unlink is caught
\* and logged (234, 242).
Unlink(file, n, unlink_ok) ==
    IF n > 0 /\ unlink_ok THEN "absent" ELSE file

\* One entry of the log: what the loop body did for one episode.
Entry(dl, called, transcript, output, unlinks) ==
    [download |-> dl, transcribed |-> called, transcript |-> transcript,
     output |-> output, unlinks |-> unlinks]

\* The body of the episode loop (172-245).  raised: an exception left the body,
\* which only save_transcript (51-70, open and write) can cause: download,
\* get_audio_duration, transcribe and the unlink calls catch theirs.
LoopBody(file, fetch, transcript, write_ok, unlink_ok) ==
    LET rss == audio_path_source = "download"
        dl == IF rss THEN download(file, fetch) ELSE [path |-> TRUE, file |-> file]
        how == IF ~rss THEN "none" ELSE IF dl.path THEN "ok" ELSE "failed"
    IN  IF ~dl.path
        THEN [file |-> dl.file, called |-> FALSE, raised |-> FALSE,
              entry |-> Entry(how, FALSE, None, FALSE, 0)]
        ELSE IF ~Truthy(transcript)
        THEN [file |-> dl.file, called |-> TRUE, raised |-> FALSE,
              entry |-> Entry(how, TRUE, transcript, FALSE, 0)]
        ELSE IF ~write_ok
        THEN [file |-> dl.file, called |-> TRUE, raised |-> TRUE,
              entry |-> Entry(how, TRUE, transcript, FALSE, 0)]
        ELSE [file |-> Unlink(dl.file, unlink_calls, unlink_ok),
              called |-> TRUE, raised |-> FALSE,
              entry |-> Entry(how, TRUE, transcript, TRUE, unlink_calls)]

MainInit ==
    /\ pc = "main"
    /\ config \in MainConfigs
    /\ OPENAI_AVAILABLE = FALSE
    /\ model = "None"
    /\ openai_client = FALSE
    /\ use_openai = FALSE
    /\ NoCallYet
    /\ MainIdle
    /\ split_in = NoSplit
    /\ chunks = <<>>
    /\ transcripts = <<>>
    /\ combined = <<>>

\* main up to the loop (113-168): the configuration is read, a Config without a
\* source is refused (143-148), the input source gives the episodes or raises
\* (the handler 247-249 ends the run with status 1 in both cases),
\* an empty list ends the run (163-165), otherwise the transcriber is built.
MainStart ==
    /\ pc = "main"
    /\ \E source_ok \in BOOLEAN, n \in EpisodeCounts :
          \E disk \in InitialDownloads(n) :
              IF episode_source = "none" \/ ~source_ok
              THEN /\ pc' = "exited"
                   /\ exit_code' = 1
                   /\ UNCHANGED <<episodes, downloads>>
              ELSE IF n = 0
              THEN /\ pc' = "exited"
                   /\ exit_code' = 0
                   /\ UNCHANGED <<episodes, downloads>>
              ELSE /\ pc' = "loop"
                   /\ episodes' = n
                   /\ downloads' = disk
                   /\ UNCHANGED exit_code
    /\ UNCHANGED <<episode, log, splitVars, combineVars, selfVars, envVars, callVars,
                   diskVars, failed_before, load_calls, loop_start>>

\* One iteration of `for episode in episodes` (171-245).  The transcriber is the
\* one object built at 168: a call leaves its fields as _load_model sets them,
\* and returns None when no backend is available.
ProcessEpisode ==
    /\ pc = "loop"
    /\ episode < episodes
    /\ \E fetch \in FetchOutcomes, load_ok \in LoadOutcomes,
           write_ok \in BOOLEAN, unlink_ok \in BOOLEAN :
          LET lm == _load_model(load_ok, TRUE)
          IN  \E transcript \in TranscriptsOf(lm.ok,
                                   audio_file(downloads[episode + 1], fetch)) :
                  LET k == episode + 1
                      b == LoopBody(downloads[k], fetch, transcript, write_ok, unlink_ok)
                  IN  /\ episode' = k
                      /\ downloads' = [downloads EXCEPT ![k] = b.file]
                      /\ log' = Append(log, b.entry)
                      /\ model' = IF b.called THEN lm.model ELSE model
                      /\ openai_client' = IF b.called THEN lm.openai_client
                                          ELSE openai_client
                      /\ use_openai' = IF b.called THEN lm.use_openai ELSE use_openai
                      /\ load_calls' = IF b.called THEN loads_after(lm.load)
                                       ELSE load_calls
                      /\ pc' = IF b.raised THEN "exited" ELSE "loop"
                      /\ exit_code' = IF b.raised THEN 1 ELSE exit_code
    /\ UNCHANGED <<episodes, splitVars, combineVars, envVars, callVars,
                   diskVars, failed_before, loop_start>>

\* The loop is over: main returns and the process ends with status 0.
MainReturn ==
    /\ pc = "loop"
    /\ episode = episodes
    /\ pc' = "exited"
    /\ exit_code' = 0
    /\ UNCHANGED <<episodes, episode, downloads, log, splitVars, combineVars,
                   selfVars, envVars, callVars, diskVars, failed_before,
                   load_calls, loop_start>>

MainNext == MainStart \/ ProcessEpisode \/ MainReturn

MainSpec == MainInit /\ [][MainNext]_vars

(***************************************************************************)
(* Properties of _split_audio, checked under SplitSpec.                    *)
(***************************************************************************)
SplitRan == pc \in {"split_done", "split_endless"}
SplitDone == pc = "split_done"
ValidOverlap == split_in.overlap_ms >= 0 /\ split_in.overlap_ms < split_in.chunk_duration_ms
NominalStep == split_in.chunk_duration_ms - split_in.overlap_ms
Window(s, e) == [start_ms |-> s, end_ms |-> e]

\* C1 (coverage): for len(audio) > 0 and 0 <= overlap_ms < chunk_duration_ms the
\* call returns, every millisecond of [0, len(audio)) lies in some window, and
\* every window is a non-empty interval inside [0, len(audio)].
C1_Coverage ==
    (SplitRan /\ split_in.audio > 0 /\ ValidOverlap) =>
        /\ SplitDone
        /\ \A t \in 0..(split_in.audio - 1) :
              \E i \in DOMAIN chunks : chunks[i].start_ms <= t /\ t < chunks[i].end_ms
        /\ \A i \in DOMAIN chunks :
              /\ 0 <= chunks[i].start_ms
              /\ chunks[i].start_ms < chunks[i].end_ms
              /\ chunks[i].end_ms <= split_in.audio

C1_Witness ==
    /\ SplitDone /\ ValidOverlap /\ split_in.overlap_ms > 0
    /\ Len(chunks) >= 3
    /\ chunks[Len(chunks)].end_ms = split_in.audio

\* C2 (overlap invariant): for 0 <= overlap_ms < chunk_duration_ms, consecutive
\* windows start one step apart and overlap by exactly overlap_ms; every window
\* but the last has the full chunk_duration_ms, no window is longer, and the last
\* one ends at len(audio).
C2_Overlap ==
    (SplitRan /\ ValidOverlap) =>
        /\ SplitDone
        /\ \A i \in 1..(Len(chunks) - 1) :
              /\ chunks[i + 1].start_ms = chunks[i].start_ms + NominalStep
              /\ chunks[i].end_ms - chunks[i + 1].start_ms = split_in.overlap_ms
              /\ chunks[i].end_ms - chunks[i].start_ms = split_in.chunk_duration_ms
        /\ \A i \in 1..Len(chunks) :
              chunks[i].end_ms - chunks[i].start_ms <= split_in.chunk_duration_ms
        /\ Len(chunks) >= 1 => chunks[Len(chunks)].end_ms = split_in.audio

C2_Witness ==
    /\ SplitDone /\ ValidOverlap /\ split_in.overlap_ms > 0
    /\ Len(chunks) >= 3
    /\ chunks[2].start_ms < chunks[1].end_ms
    /\ chunks[Len(chunks)].end_ms - chunks[Len(chunks)].start_ms
           < split_in.chunk_duration_ms

\* C3 as stated (single-window shortcut): whenever len(audio) <= chunk_duration_ms
\* the result is the one window [0, len(audio)), whatever the overlap.
C3_Original ==
    (SplitRan /\ split_in.audio <= split_in.chunk_duration_ms) =>
        SplitDone /\ chunks = <<Window(0, split_in.audio)>>

\* C3 amended: whenever 0 < len(audio) <= chunk_duration_ms the result is the one
\* window [0, len(audio)), whatever the overlap (valid or not); for
\* len(audio) = 0 the result is the empty list.
C3_SingleWindow ==
    /\ (SplitRan /\ 0 < split_in.audio /\ split_in.audio <= split_in.chunk_duration_ms) =>
           SplitDone /\ chunks = <<Window(0, split_in.audio)>>
    /\ (SplitRan /\ split_in.audio = 0) => SplitDone /\ chunks = <<>>

C3_Witness ==
    /\ SplitDone
    /\ 0 < split_in.audio /\ split_in.audio < split_in.chunk_duration_ms
    /\ split_in.overlap_ms >= split_in.chunk_duration_ms
    /\ chunks = <<Window(0, split_in.audio)>>

\* The reference sequence of C4: window i (0-based) is
\* [i*step, min(i*step + segment, total)), up to and including the first window
\* whose end equals total.
RefCount(total, segment, step) ==
    CHOOSE n \in 1..total :
        /\ Min((n - 1) * step + segment, total) = total
        /\ \A j \in 1..(n - 1) : Min((j - 1) * step + segment, total) # total

RefWindows(total, segment, step) ==
    [k \in 1..RefCount(total, segment, step) |->
        Window((k - 1) * step, Min((k - 1) * step + segment, total))]

CombineDone == pc = "combine_done"
NonEmpty(t) == t # <<>>
IsTrimmed(t) == t = <<>> \/ (Head(t) # " " /\ t[Len(t)] # " ")

RECURSIVE JoinWithSpace(_)
JoinWithSpace(ts) ==
    IF ts = <<>> THEN <<>>
    ELSE IF Len(ts) = 1 THEN ts[1]
    ELSE ts[1] \o <<" ">> \o JoinWithSpace(Tail(ts))

\* C5 (empty-segment dropping): when every text is trimmed, the result is the
\* non-empty texts, in order and all of them, joined by single spaces.
C5_EmptyDropped ==
    (CombineDone /\ \A i \in DOMAIN transcripts : IsTrimmed(transcripts[i])) =>
        combined = JoinWithSpace(SelectSeq(transcripts, NonEmpty))

C5_Witness ==
    /\ CombineDone
    /\ transcripts = << <<"a">>, <<>>, <<"b">> >>
    /\ combined = <<"a", " ", "b">>

\* C6 (single segment): a one-element list is returned as its element, unchanged,
\* trimmed or not.
C6_Single ==
    (CombineDone /\ Len(transcripts) = 1) => combined = transcripts[1]

C6_Witness ==
    /\ CombineDone
    /\ transcripts = << <<" ", "a">> >>
    /\ combined = <<" ", "a">>

(***************************************************************************)
(* Properties of transcribe, checked under Spec.                           *)
(***************************************************************************)
CallEnded == pc \in {"returned", "endless"}
LocalPreferred == ~config.use_openai_api
FailedCall(backend) ==
    \E j \in DOMAIN calls : calls[j].backend = backend /\ ~calls[j].ok
RequestTo(backend) ==
    \E j \in DOMAIN calls : calls[j].backend = backend

\* The fallback backend is there to be used: fallback enabled, an API key
\* configured, the openai library present and its client constructed.
FallbackReady ==
    /\ config.openai_fallback
    /\ config.openai_api_key
    /\ OPENAI_AVAILABLE
    /\ openai_client
    /\ client_init # "failed"

\* C7 (fallback activation) as stated: when the preferred (local) backend fails,
\* at model load or in a transcription call, and the fallback is enabled and
\* configured, every failed piece is retried with the fallback backend, and if no
\* fallback request fails the call succeeds and the engine is the fallback's.
C7_FallbackActivation ==
    (pc = "returned" /\ LocalPreferred /\ FallbackReady
        /\ audio_path.exists /\ audio_path.st_size > 0
        /\ (load = "failed" \/ FailedCall(LOCAL_WHISPER))) =>
        /\ use_openai
        /\ \A j \in DOMAIN calls :
              (calls[j].backend = LOCAL_WHISPER /\ ~calls[j].ok) =>
                  \E k \in DOMAIN calls :
                      /\ k > j
                      /\ calls[k].backend = OPENAI_API
                      /\ calls[k].segment = calls[j].segment
        /\ (route = "single" /\ ~FailedCall(OPENAI_API)) =>
              ~result.none /\ get_engine_name = OPENAI_API

\* The part of C7 the code implements: after a failed model load with the fallback
\* ready the object has switched to the API, every request of the call goes to
\* the API, and a single-pass call whose request succeeds returns its text under
\* the engine name openai_api.
C7_LoadFallback ==
    (pc = "returned" /\ LocalPreferred /\ FallbackReady /\ load = "failed") =>
        /\ use_openai
        /\ client_init = "ok"
        /\ ~RequestTo(LOCAL_WHISPER)
        /\ (route = "single" /\ ~FailedCall(OPENAI_API)) =>
              /\ Len(calls) = 1
              /\ ~result.none
              /\ get_engine_name = OPENAI_API

C7_LoadFallbackWitness ==
    /\ pc = "returned" /\ LocalPreferred /\ FallbackReady /\ load = "failed"
    /\ route = "single" /\ result = Some(<<"a">>) /\ get_engine_name = OPENAI_API

\* C8 (fallback suppression): with openai_fallback off, a local transcriber never
\* switches to the API and sends it nothing, a transcriber configured for the API
\* never touches the local model, and a failure of the preferred backend (model
\* load or request) makes the call return None.
C8_FallbackSuppression ==
    ~config.openai_fallback =>
        /\ LocalPreferred =>
              /\ ~use_openai
              /\ client_init = "not_called"
              /\ ~RequestTo(OPENAI_API)
              /\ (pc = "returned" /\ (load = "failed" \/ FailedCall(LOCAL_WHISPER)))
                    => result.none
        /\ ~LocalPreferred =>
              /\ model = "None"
              /\ load = "not_called"
              /\ ~RequestTo(LOCAL_WHISPER)
              /\ (pc = "returned" /\ FailedCall(OPENAI_API)) => result.none

C8_Witness ==
    /\ pc = "returned"
    /\ ~config.openai_fallback /\ LocalPreferred
    /\ config.openai_api_key /\ OPENAI_AVAILABLE /\ openai_client
    /\ audio_path.exists
    /\ load = "failed"
    /\ result.none /\ calls = <<>> /\ ~use_openai

\* C9 (size-based routing): a call that gets as far as the size test takes the
\* single-pass branch exactly when the file size is at most the limit, 25 MB when
\* the API is in use and config.chunk_size_mb otherwise; it gets that far unless
\* the file is missing or no backend could be loaded.  A 30 MB file with the API
\* preferred is chunked and never sent whole.
C9_Routing ==
    CallEnded =>
        /\ route \in {"single", "chunked"} =>
              (route = "single" <=>
                  audio_path.st_size <=
                      (IF use_openai THEN 25 ELSE config.chunk_size_mb) * MB)
        /\ route = "none" => (~audio_path.exists \/ (load = "failed" /\ ~use_openai))
        /\ (config.use_openai_api /\ audio_path.exists /\ audio_path.st_size = 30 * MB) =>
              /\ route = "chunked"
              /\ \A j \in DOMAIN calls : calls[j].segment # 0

C9_Witness ==
    /\ pc = "returned"
    /\ config.use_openai_api /\ config.chunk_size_mb = 50
    /\ audio_path.exists /\ audio_path.st_size = 30 * MB
    /\ route = "chunked"
    /\ Len(calls) >= 2
    /\ \A j \in DOMAIN calls : calls[j].segment = j /\ calls[j].sent

\* C10 (PayloadTooLarge is recovered per segment): in a chunked API call, an
\* exported chunk above 25 MB gets the empty string as its transcript and no
\* request, and the loop goes on to the next chunk; when all the other chunks
\* export and all their requests succeed the call returns the join of the texts
\* of the other chunks.
TooLarge(i) == exports[i].ok /\ exports[i].st_size > 25 * MB

C10_TooLargeSkipped ==
    (pc = "returned" /\ route = "chunked" /\ use_openai) =>
        /\ \A i \in DOMAIN exports : TooLarge(i) =>
              /\ i \in DOMAIN transcripts
              /\ transcripts[i] = <<>>
              /\ \A j \in DOMAIN calls : calls[j].segment # i
              /\ i < Len(chunks) => Len(exports) > i
        /\ ((\E i \in DOMAIN exports : TooLarge(i))
                /\ (\A i \in DOMAIN exports : exports[i].ok)
                /\ ~FailedCall(OPENAI_API)) =>
              /\ ~result.none
              /\ Len(transcripts) = Len(chunks)
              /\ \A i \in DOMAIN chunks : ~TooLarge(i) =>
                    \E j \in DOMAIN calls :
                        /\ calls[j].segment = i
                        /\ calls[j].ok
                        /\ calls[j].st_size = exports[i].st_size
              /\ result.text = JoinWithSpace(SelectSeq(transcripts, NonEmpty))

C10_Witness ==
    /\ pc = "returned" /\ route = "chunked" /\ use_openai
    /\ Len(chunks) = 3 /\ Len(exports) = 3
    /\ TooLarge(2)
    /\ transcripts = << <<"a">>, <<>>, <<"b">> >>
    /\ result = Some(<<"a", " ", "b">>)

\* C11 (per-segment failures recovered locally) as stated: in a chunked call,
\* local or remote, a segment whose backend request fails contributes the empty
\* text, every segment of the file is still exported and gets its transcript,
\* and the call does not return None.  It is stated here for a failure that has
\* segments after it and a transcribed segment before it.
C11_SegmentFailureRecovered ==
    (pc = "returned" /\ route = "chunked"
        /\ (\A i \in DOMAIN exports : exports[i].ok)
        /\ (\E j \in DOMAIN calls : calls[j].ok)
        /\ (\E j \in DOMAIN calls : ~calls[j].ok /\ calls[j].segment < Len(chunks))) =>
        /\ ~result.none
        /\ Len(exports) = Len(chunks)
        /\ Len(transcripts) = Len(chunks)
        /\ \A j \in DOMAIN calls : ~calls[j].ok => transcripts[calls[j].segment] = <<>>

\* What the code does with a failed segment: the exception leaves the chunk
\* loop, the chunks after it are neither exported nor requested, and the call
\* returns None.
C11_SegmentFailureEndsCall ==
    (pc = "returned" /\ route = "chunked" /\ (\E j \in DOMAIN calls : ~calls[j].ok)) =>
        /\ result.none
        /\ ~calls[Len(calls)].ok
        /\ Len(exports) = calls[Len(calls)].segment
        /\ Len(transcripts) = Len(exports) - 1

C11_SegmentFailureEndsCallWitness ==
    /\ pc = "returned" /\ route = "chunked"
    /\ Len(chunks) = 3 /\ Len(calls) = 2 /\ calls[1].ok /\ ~calls[2].ok
    /\ transcripts = << <<"a">> >>
    /\ result.none

\* An error of the call that nothing recovers: the file is missing, no backend
\* is available (the model failed to load and the API did not take over), a
\* backend request failed, the file could not be decoded, or a chunk could not
\* be exported.
Unrecoverable ==
    \/ ~audio_path.exists
    \/ (load = "failed" /\ ~use_openai)
    \/ FailedCall(LOCAL_WHISPER)
    \/ FailedCall(OPENAI_API)
    \/ (route = "chunked" /\ split_in = NoSplit)
    \/ \E i \in DOMAIN exports : ~exports[i].ok

\* C13 (transcribe never propagates an error): no call ends with an exception
\* reaching the caller; a call in which an unrecoverable error happens returns
\* None; and the object stays usable, a call without such an error returning a
\* transcript whether or not earlier calls on the object have failed.
C13_NeverPropagates ==
    /\ pc # "raised"
    /\ (pc = "returned" /\ Unrecoverable) => result.none
    /\ (pc = "returned" /\ ~Unrecoverable) => ~result.none

C13_Witness ==
    /\ pc = "returned"
    /\ failed_before
    /\ model = "loaded"
    /\ FailedCall(LOCAL_WHISPER)
    /\ result.none

\* The object after failed calls: a later call returns a text.
C13_UsableWitness ==
    /\ pc = "returned"
    /\ failed_before
    /\ ~Unrecoverable
    /\ result = Some(<<"a">>)

\* C14 (temporary clip cleanup): once a call has ended, with a transcript or
\* with None, whatever chunk it failed on, no clip of the file is left in
\* temporary storage.
C14_NoClipLeft ==
    pc \in {"ready", "returned"} => temp_files = {}

C14_Witness ==
    /\ pc = "returned" /\ route = "chunked"
    /\ Len(chunks) = 3
    /\ Len(exports) = 2 /\ exports[1].ok /\ exports[2].ok
    /\ FailedCall(OPENAI_API)
    /\ result.none
    /\ temp_files = {}

\* C15 (the core leaves the source untouched): when a call has ended, on the
\* single-pass, chunked, fallback and failure paths alike, the file is on disk
\* as it was when the call was made: same existence, same size.
C15_SourceUntouched ==
    CallEnded => source = audio_path

C15_Witness ==
    /\ pc = "returned" /\ route = "chunked"
    /\ LocalPreferred /\ load = "failed" /\ use_openai
    /\ Len(exports) >= 2
    /\ result.none
    /\ source.exists /\ source = audio_path

\* C17 (invalid overlap rejected at startup) as stated: _split_audio is never
\* called with overlap_ms >= chunk_duration_ms.  It is stated here for the files
\* that are longer than one chunk, those the step matters for.
C17_InvalidOverlapRejected ==
    (route = "chunked" /\ split_in # NoSplit
        /\ split_in.audio > split_in.chunk_duration_ms) =>
        split_in.overlap_ms < split_in.chunk_duration_ms

\* C19 (fail-fast, no retries): within a call no file or segment is requested
\* twice, from either backend, and no request follows a failed one; a
\* single-pass call makes at most one request.
C19_FailFast ==
    CallEnded =>
        /\ \A j, k \in DOMAIN calls : j # k => calls[j].segment # calls[k].segment
        /\ \A j \in DOMAIN calls : ~calls[j].ok => j = Len(calls)
        /\ route = "single" => Len(calls) <= 1

C19_Witness ==
    /\ pc = "returned" /\ route = "chunked" /\ ~use_openai
    /\ config.openai_fallback /\ config.openai_api_key /\ openai_client
    /\ Len(chunks) = 3
    /\ Len(calls) = 2 /\ calls[1].ok /\ calls[2].segment = 2 /\ ~calls[2].ok
    /\ result.none

\* C20 (remote payload bound): no request to the API carries more than 25 MB,
\* on the single-pass path, for the chunks of the chunked path, and after the
\* switch to the API made by the fallback.
C20_RemotePayloadBound ==
    \A j \in DOMAIN calls :
        calls[j].backend = OPENAI_API => calls[j].st_size <= 25 * MB

C20_Witness ==
    /\ pc = "returned" /\ route = "chunked"
    /\ LocalPreferred /\ load = "failed" /\ use_openai
    /\ \E i \in DOMAIN exports : TooLarge(i)
    /\ \E j \in DOMAIN calls :
          calls[j].backend = OPENAI_API /\ calls[j].sent /\ calls[j].st_size = 25 * MB
    /\ ~result.none

(***************************************************************************)
(* Properties of main, checked under MainSpec.                             *)
(***************************************************************************)
Exited == pc = "exited"
Outputs == { i \in DOMAIN log : log[i].output }
Transcribed == { i \in DOMAIN log : log[i].transcribed }
Downloaded == { i \in DOMAIN log : log[i].download = "ok" }

\* C12 (batch continuation) as stated: whatever fails while an episode is
\* processed (download, source, transcription, writing the output), the loop
\* goes on: a run that has entered the loop ends only after the loop body has
\* run for every episode of the batch.
C12_BatchContinues ==
    (Exited /\ episodes > 0) => Len(log) = episodes

\* The part of C12 the code implements: a failed download and a failed
\* transcription are logged and the loop goes on; the run ends before the last
\* episode only when writing an output raised, and then with status 1.
C12_ContinuesUnlessWriteFails ==
    (Exited /\ episodes > 0 /\ Len(log) < episodes) =>
        /\ exit_code = 1
        /\ Truthy(log[Len(log)].transcript)
        /\ ~log[Len(log)].output
        /\ \A i \in 1..(Len(log) - 1) : Truthy(log[i].transcript) => log[i].output

C12_ContinuesWitness ==
    /\ Exited /\ episodes = 2 /\ Len(log) = 2
    /\ log[1].download = "failed"
    /\ log[2].output

\* C16 (batch exit status) as stated: the exit status of a run over a batch of
\* at least one episode is success exactly when at least one episode of the
\* batch produced an output transcript.
C16_ExitStatus ==
    (Exited /\ episodes > 0) => (exit_code = 0 <=> Outputs # {})

\* What the code does once the loop is entered: the status is 0 whenever the
\* loop runs to its end, with or without outputs, and 1 exactly when writing an
\* output raised.
C16_ExitStatusOfCode ==
    (Exited /\ episodes > 0) =>
        (exit_code = 0 <=>
            (/\ Len(log) = episodes
             /\ \A i \in DOMAIN log : Truthy(log[i].transcript) => log[i].output))

\* C18 (episode cap) as stated: at most max_episodes episodes are downloaded
\* and transcribed in a run.
C18_EpisodeCap ==
    /\ Cardinality(Transcribed) <= config.max_episodes
    /\ Cardinality(Downloaded) <= config.max_episodes
    /\ Len(log) <= config.max_episodes

(***************************************************************************)
(* Properties of the chunk duration estimate, checked under Spec.          *)
(***************************************************************************)
\* The file of the last call was cut into chunks: the estimate was made and
\* handed to _split_audio.
Chunked == pc \in {"returned", "endless"} /\ route = "chunked" /\ split_in # NoSplit

\* The size budget of the method that ran, in the unit of st_size.
size_budget == (IF use_openai THEN openai_chunk_size_mb ELSE config.chunk_size_mb) * MB

\* C21: for every chunked file the chunk duration handed to _split_audio is
\* max(floor(len(audio) * size_budget / total_size), 30000): it is never below
\* 30000 ms, above 30000 it is the largest d with d * total_size <= len(audio) *
\* size_budget, and at 30000 the quotient is below 30001; the budget is
\* config.chunk_size_mb for the local model (and 20 MB for the API).
C21_SegmentDurationEstimate ==
    Chunked =>
        LET d == split_in.chunk_duration_ms
            product == split_in.audio * size_budget
            total_size == audio_path.st_size
        IN  /\ total_size > 0
            /\ d >= min_chunk_duration_ms
            /\ d * total_size <= product \/ d = min_chunk_duration_ms
            /\ product < (d + 1) * total_size

\* A local chunked call whose estimate is above the lower limit and is rounded
\* down (the quotient is not an integer).
C21_Witness ==
    /\ Chunked
    /\ ~use_openai
    /\ split_in.chunk_duration_ms > min_chunk_duration_ms
    /\ split_in.chunk_duration_ms * audio_path.st_size < split_in.audio * size_budget

\* An API chunked call whose estimate is below the lower limit.
C21_ClampedWitness ==
    /\ Chunked
    /\ use_openai
    /\ split_in.chunk_duration_ms = min_chunk_duration_ms
    /\ (split_in.audio * size_budget) \div audio_path.st_size < min_chunk_duration_ms

(***************************************************************************)
(* Properties of the loading of the local model, checked under Spec.       *)
(***************************************************************************)
\* C22: over the calls of one object whisper.load_model is called at most
\* once, and never when the API is the configured backend.
C22_LoadedAtMostOnce ==
    /\ load_calls <= 1
    /\ config.use_openai_api => load_calls = 0

\* What does hold: the API-configured object never calls whisper.load_model,
\* and once a load has succeeded the model stays and is not loaded again.
C22_NoLoadForApi == config.use_openai_api => (load_calls = 0 /\ model = "None")

C22_LoadedStays ==
    [][model = "loaded" => (model' = "loaded" /\ load_calls' = load_calls)]_vars

\* A second call served by the model that the first call loaded.
C22_LoadedStaysWitness ==
    /\ pc = "returned"
    /\ model = "loaded"
    /\ load = "not_called"
    /\ load_calls = 1
    /\ RequestTo(LOCAL_WHISPER)

(***************************************************************************)
(* The number of windows: of _split_audio under SplitSpec, of a chunked    *)
(* call under Spec.                                                        *)
(***************************************************************************)
\* C23 as stated: for every len(audio) >= 0 and every valid chunk duration and
\* overlap, _split_audio returns at least one window.
C23_Original ==
    (SplitRan /\ split_in.audio >= 0 /\ ValidOverlap) => SplitDone /\ Len(chunks) >= 1

\* C23 amended: for every len(audio) > 0 and every valid chunk duration and
\* overlap, _split_audio returns at least one window, the first starting at 0;
\* for len(audio) = 0 it returns no window.
C23_WindowCount ==
    /\ (SplitRan /\ split_in.audio > 0 /\ ValidOverlap) =>
           SplitDone /\ Len(chunks) >= 1 /\ chunks[1].start_ms = 0
    /\ (SplitRan /\ split_in.audio = 0) => SplitDone /\ Len(chunks) = 0

\* An audio shorter than one chunk, with a valid overlap, gives one window.
C23_Witness ==
    /\ SplitDone
    /\ ValidOverlap
    /\ 0 < split_in.audio /\ split_in.audio < split_in.chunk_duration_ms
    /\ split_in.overlap_ms > 0
    /\ Len(chunks) = 1

\* The same under Spec: a chunked call whose split returned has a first chunk
\* to export when len(audio) > 0; with len(audio) = 0 it has none, makes no
\* request and returns the empty string.
C23_ChunkedHandsSegment ==
    (Chunked /\ pc = "returned") =>
        /\ split_in.audio > 0 => (Len(chunks) >= 1 /\ Len(exports) >= 1)
        /\ split_in.audio = 0 =>
               (chunks = <<>> /\ calls = <<>> /\ result = Some(<<>>))

C23_EmptyAudioWitness ==
    Chunked /\ pc = "returned" /\ split_in.audio = 0 /\ result = Some(<<>>)

(***************************************************************************)
(* Termination of _split_audio, checked under SplitLoopSpec.               *)
(***************************************************************************)
\* C24: for every len(audio) >= 0 and every 0 <= overlap_ms < chunk_duration_ms
\* the loop of _split_audio reaches `return chunks`, after at most len(audio)
\* windows (and at least one pass for a non-empty audio).
C24_Termination ==
    ValidOverlap =>
        <>(pc = "split_returned" /\ Len(chunks) <= Max(split_in.audio, 1))

\* A run with an overlap that returns after three passes or more.
C24_Witness ==
    /\ pc = "split_returned"
    /\ ValidOverlap
    /\ split_in.overlap_ms > 0
    /\ Len(chunks) >= 3

\* With a valid overlap start grows in every pass that does not break.
C24_StartIncreases ==
    [][(ValidOverlap /\ pc' = "splitting") => loop_start' > loop_start]_vars

\* The loop run pass by pass and the function _split_audio of SplitSpec agree:
\* the loop returns exactly the windows of the function, and it is still
\* running after MaxTotal + 1 windows exactly when the function does not return.
C24_LoopIsSplitAudio ==
    LET r == _split_audio(split_in.audio, split_in.chunk_duration_ms, split_in.overlap_ms)
    IN  /\ pc = "split_returned" => (r.returns /\ chunks = r.chunks)
        /\ (pc = "splitting" /\ Len(chunks) > MaxTotal) => ~r.returns
        /\ ~r.returns => pc = "splitting"

\* Under Spec, where a backend request is one step that answers or fails: a
\* chunked call with overlap below the chunk duration returns.
C24_ChunkedReturns ==
    (CallEnded /\ route = "chunked" /\ split_in.overlap_ms < split_in.chunk_duration_ms)
        => pc = "returned"

(***************************************************************************)
(* Properties of the list of chunk transcripts, checked under Spec.        *)
(***************************************************************************)
\* Chunk i of the last call was skipped: the API method found its exported
\* file above the limit.
Skipped(i) == use_openai /\ exports[i].st_size > chunk_skip_limit_mb * MB

\* C25: when a chunked call returns a text, the list given to
\* _combine_transcripts has one entry per window; entry i is the empty string
\* when chunk i was skipped (no request was made for it) and otherwise the text
\* returned by the one request made for chunk i; the requests were made in the
\* order of the windows, and the text returned is the combination of the list.
C25_OneEntryPerWindow ==
    (Chunked /\ pc = "returned" /\ ~result.none) =>
        /\ Len(transcripts) = Len(chunks)
        /\ Len(exports) = Len(chunks)
        /\ \A i \in 1..Len(chunks) :
              IF Skipped(i)
              THEN /\ transcripts[i] = <<>>
                   /\ \A j \in DOMAIN calls : calls[j].segment # i
              ELSE \E j \in DOMAIN calls :
                      /\ calls[j].segment = i
                      /\ calls[j].ok
                      /\ calls[j].text = transcripts[i]
                      /\ \A k \in DOMAIN calls : calls[k].segment = i => k = j
        /\ \A j, k \in DOMAIN calls : j < k => calls[j].segment < calls[k].segment
        /\ result.text = _combine_transcripts(transcripts)

\* An API call of three chunks: one skipped, the two others with different
\* texts, which the result shows in the order of their windows.
C25_Witness ==
    /\ Chunked /\ pc = "returned" /\ ~result.none
    /\ use_openai
    /\ Len(chunks) = 3
    /\ transcripts = << <<"a">>, <<>>, <<"b">> >>
    /\ Skipped(2)
    /\ result.text = <<"a", " ", "b">>

(***************************************************************************)
(* The fallback switch over the calls of one object, checked under Spec.   *)
(***************************************************************************)
\* The object uses the API without having been configured to: _load_model has
\* switched it after a failed load.
Switched == use_openai /\ ~config.use_openai_api

\* C26: once the object has switched to the API after a failed load, every
\* later step leaves it switched: whisper.load_model is not called again, a
\* later call makes requests to the API only and takes the single-pass branch
\* exactly for files of at most 25 MB, and get_engine_name gives "openai_api".
C26_FallbackSticky ==
    [][Switched =>
          /\ use_openai'
          /\ load_calls' = load_calls
          /\ load' \in {load, "not_called"}
          /\ \A j \in DOMAIN calls' : calls'[j].backend = OPENAI_API
          /\ route' = "single" => audio_path'.st_size <= openai_limit_mb * MB
          /\ route' = "chunked" => audio_path'.st_size > openai_limit_mb * MB
          /\ get_engine_name' = OPENAI_API]_vars

\* A call after the one that switched: no load, and a file of 30 MB is cut into
\* chunks for the API although the local limit (50 MB) would have let it pass.
C26_Witness ==
    /\ Switched
    /\ pc = "returned"
    /\ load = "not_called"
    /\ config.chunk_size_mb = 50
    /\ audio_path.st_size = 30 * MB
    /\ route = "chunked"
    /\ RequestTo(OPENAI_API)
    /\ ~result.none

(***************************************************************************)
(* Output files and transcripts, checked under MainSpec.                   *)
(***************************************************************************)
\* transcribe was called for the episode of log entry e and returned a string
\* that is not empty.
GotText(e) == e.transcribed /\ ~e.transcript.none /\ e.transcript.text # <<>>

C28_DeletionPolicy ==
    \A i \in DOMAIN log :
        /\ log[i].unlinks > 0 =>
               (log[i].output /\ (config.delete_audio \/ config.delete_original))
        /\ config.local_dir => (log[i].unlinks = 0 /\ downloads[i] = "complete")

\* What does hold: unlink only after the transcript is saved and only with a
\* flag set; a local file is never unlinked on account of delete_audio, and
\* never at all when x_spaces_url is not set as well.
C28_DeleteAfterSave ==
    \A i \in DOMAIN log :
        /\ log[i].unlinks > 0 =>
               (log[i].output /\ (config.delete_audio \/ config.delete_original))
        /\ (config.local_dir /\ ~(config.delete_original /\ config.x_spaces_url)) =>
               (log[i].unlinks = 0 /\ downloads[i] = "complete")

\* A downloaded file deleted after its transcript was saved.
C28_DeleteAfterSaveWitness ==
    /\ Len(log) >= 1
    /\ audio_path_source = "download"
    /\ config.delete_audio
    /\ log[1].output
    /\ log[1].unlinks = 1
    /\ downloads[1] = "absent"

(***************************************************************************)
(* Downloaded files, checked under MainSpec.                               *)
(***************************************************************************)
\* C29: download gives a path only for a completely downloaded file, and after
\* a download that failed no file is at the target path: the file of an
\* episode whose download failed is absent, and the file of an episode whose
\* download gave a path (and which no unlink has removed) is complete.
C29_CompleteOrAbsent ==
    \A i \in DOMAIN log :
        /\ log[i].download = "failed" => downloads[i] = "absent"
        /\ (log[i].download = "ok" /\ log[i].unlinks = 0) => downloads[i] = "complete"

\* What does hold: a failed download leaves no complete file, and a path given
\* for a file that was absent before the call names a complete file.
C29_FailedIsNotComplete ==
    \A i \in DOMAIN log : log[i].download = "failed" => downloads[i] # "complete"

\* An episode whose download broke off during the transfer.
C29_PartialLeftWitness ==
    /\ Len(log) >= 1
    /\ log[1].download = "failed"
    /\ downloads[1] = "partial"

\* An episode whose truncated file was returned by download and transcribed.
C29_PartialReturnedWitness ==
    /\ Len(log) >= 1
    /\ log[1].download = "ok"
    /\ log[1].transcribed
    /\ downloads[1] = "partial"
====
